---- MODULE Spec2Model ----
(***************************************************************************)
(* The RAG question-answering pipeline of chat_bot: ChatService.ask_question *)
(* -> RAGAgent.invoke_agent -> the LangGraph state graph (moderation,       *)
(* retrieval, document processing, relevance check, answer generation).     *)
(*                                                                         *)
(* Also ChatService.ask_question over a patched RAGAgent (SpecAsk) and      *)
(* PGDocumentService.create_document with DocumentChunker.index_document    *)
(* (SpecDoc): chunking, then the batched writes to the vector store.        *)
(*                                                                         *)
(* External capabilities (moderation API, vector index, judge model,        *)
(* generation model) are doubles whose behaviour for one run is fixed in    *)
(* env; every call that reaches a capability is appended to calls.          *)
(***************************************************************************)
EXTENDS Integers, Sequences, FiniteSets, Bags, TLC

VARIABLES
    pc,         \* control position: idle, invoke_agent, START, a node name, END, raised, returned, done
    question,   \* ask_question(question, ...)
    kArg,       \* ask_question(..., k) after the default was applied
    env,        \* behaviour of the external capabilities in this run
    st,         \* the graph State (rag_agent/state.py), a dict: keys + values
    calls,      \* capability calls made so far, in order
    trace,      \* graph nodes executed so far, in order
    modResult,  \* result of the START conditional edge (Moderation.moderate)
    relResult,  \* result of the process_documents conditional edge (check_relevance)
    exc,        \* message of the exception propagating inside invoke_agent's try
    result,     \* the dict invoke_agent returned
    ret,        \* what ask_question returned (or raised)
    wr,         \* PGDocumentService.create_document: its locals, the add calls made, its outcome
    db          \* the documents table, the vector table and the upload/delete requests in progress

vars == <<pc, question, kArg, env, st, calls, trace, modResult, relResult, exc, result, ret, wr, db>>

----------------------------------------------------------------------------
\* Bounds of the model
MaxStore == 2   \* records held by the vector index
MaxK == 4       \* largest explicit k given to ask_question
MaxDocs == 2    \* documents in a State handed directly to a node
MaxSources == 3 \* sources listed by an agent double's result
MaxChunks == 61 \* base segments the splitter cuts one document into
MaxChunkSize == 2 \* largest CHUNKING_CHUNK_SIZE / CHUNKING_OVERLAP_SIZE set in the environment
MaxWindow == 2  \* largest context_window given to _general_split
MaxDeletes == 1 \* delete requests one client sends for its document

\* Program constants
RETRIEVAL_TOP_K == 3
ASK_DEFAULT_K == 5
STATE_DEFAULT_K == 5
BATCH_SIZE == 50
SUB_BATCH_SIZE == 10
DEFAULT_CONTEXT_WINDOW == 1
HTTP_500 == 500
HTTP_200 == 200
HTTP_201 == 201
HTTP_400 == 400
HTTP_404 == 404

MODERATION_MESSAGE ==
    "I'm sorry, but I can't assist with that kind of request. Moderation has flagged the content as inappropriate."
RELEVANCE_FAILED_MESSAGE ==
    "I couldn't find information in the uploaded documents that's relevant to your question. Please try asking about topics that are covered in your documents."
NO_DOCUMENTS_MESSAGE == "I don't have any documents to base my answer on."
GENERATION_ERROR_PREFIX == "I encountered an error while generating the answer: "
AGENT_ERROR_PREFIX == "I encountered an error while processing your request: "
PROCESS_ERROR_PREFIX == "Error processing retrieved documents: "
ASK_DEFAULT_ANSWER == "I'm sorry, I couldn't generate an answer to your question."
ASK_ERROR_PREFIX == "Failed to process question: "
\* OpenAIModerationChain's output for flagged text (error=False)
MODERATION_FLAGGED_OUTPUT == "Text was found that violates OpenAI's content policy."

----------------------------------------------------------------------------
\* Inputs
Queries == {"", "What is the refund policy?", "12345"}
\* langdetect.detect raises LangDetectException on text without letters
UndetectableQueries == {"12345"}

StoreRecords ==
    { [content |-> "Refunds are issued within 30 days.", filename |-> "a.txt"],
      [content |-> "Shipping takes five days.", filename |-> "b.txt"] }

SeqsUpTo(S, n) == UNION { [1..m -> S] : m \in 0..n }

Envs ==
    [ mod    : {"safe", "flagged", "raise"},           \* moderation capability
      store  : SeqsUpTo(StoreRecords, MaxStore),       \* index content, nearest first
      retr   : {"ok", "search_error", "tool_raise"},   \* vector search / tool construction
      judge  : {"true", "false", "raise", "malformed"},\* judge model
      gen    : {"ok", "empty", "raise"} ]              \* generation model

NoEnv == [mod |-> "safe", store |-> <<>>, retr |-> "ok", judge |-> "false", gen |-> "ok"]

Min(a, b) == IF a <= b THEN a ELSE b

----------------------------------------------------------------------------
\* Python dicts with the State schema: keys holds the keys that are present.
EmptyDict ==
    [ keys |-> {}, input |-> "", answer |-> "", messages |-> <<>>,
      documents |-> <<>>, sources |-> <<>>, is_relevant |-> FALSE,
      moderated |-> FALSE, is_last_step |-> FALSE, retrieval_k |-> 0,
      error_message |-> "" ]

Has(d, key) == key \in d.keys

\* langgraph applies a node's update: every key overwrites its channel, but
\* messages, annotated with add_messages, appends.
Merge(s, upd) ==
    [ keys          |-> s.keys \cup upd.keys,
      input         |-> IF Has(upd, "input") THEN upd.input ELSE s.input,
      answer        |-> IF Has(upd, "answer") THEN upd.answer ELSE s.answer,
      messages      |-> IF Has(upd, "messages") THEN s.messages \o upd.messages ELSE s.messages,
      documents     |-> IF Has(upd, "documents") THEN upd.documents ELSE s.documents,
      sources       |-> IF Has(upd, "sources") THEN upd.sources ELSE s.sources,
      is_relevant   |-> IF Has(upd, "is_relevant") THEN upd.is_relevant ELSE s.is_relevant,
      moderated     |-> IF Has(upd, "moderated") THEN upd.moderated ELSE s.moderated,
      is_last_step  |-> IF Has(upd, "is_last_step") THEN upd.is_last_step ELSE s.is_last_step,
      retrieval_k   |-> IF Has(upd, "retrieval_k") THEN upd.retrieval_k ELSE s.retrieval_k,
      error_message |-> IF Has(upd, "error_message") THEN upd.error_message ELSE s.error_message ]

\* Messages. content is a str (kind "str"), a str holding a JSON array of
\* strings (kind "json_array"), a list (kind "list") or a dict with a
\* documents key (kind "dict").
StrContent(text) == [kind |-> "str", text |-> text, items |-> <<>>]
JsonArrayContent(items) == [kind |-> "json_array", text |-> "", items |-> items]
ListContent(items) == [kind |-> "list", text |-> "", items |-> items]

NoToolCall == [name |-> "", query |-> "", k |-> 0]
HumanMessage(text) == [type |-> "human", content |-> StrContent(text), tool_call |-> NoToolCall]
AIToolCallMessage(text, query, k) ==
    [type |-> "ai", content |-> StrContent(text),
     tool_call |-> [name |-> "retrieve_documents", query |-> query, k |-> k]]
ToolMessage(content) == [type |-> "tool", content |-> content, tool_call |-> NoToolCall]

\* Capability call records
Call(cap, k, n) == [cap |-> cap, k |-> k, n |-> n]
CallsOf(cap) == { i \in 1..Len(calls) : calls[i].cap = cap }

----------------------------------------------------------------------------
\* Outcome of a try block: a value, or an exception with its message
Returns(v, cs) == [raised |-> FALSE, exc |-> "", value |-> v, calls |-> cs]
Raises(msg, cs) == [raised |-> TRUE, exc |-> msg, value |-> EmptyDict, calls |-> cs]

\* state.get(key, default)
GetInput(s) == IF Has(s, "input") THEN s.input ELSE ""
GetDocuments(s) == IF Has(s, "documents") THEN s.documents ELSE <<>>
GetRetrievalK(s) == IF Has(s, "retrieval_k") THEN s.retrieval_k ELSE STATE_DEFAULT_K
GetMessages(s) == IF Has(s, "messages") THEN s.messages ELSE <<>>

----------------------------------------------------------------------------
\* tools.py

\* DocumentRetriever.get_relevant_documents: up to k nearest records; any
\* error of the index is swallowed and gives [].
get_relevant_documents(query, k, e) ==
    IF e.retr = "search_error" THEN <<>>
    ELSE SubSeq(e.store, 1, Min(k, Len(e.store)))

\* retrieve_documents(query, k): (contents, metadata) of the records found.
\* Constructing DocumentRetriever is outside get_relevant_documents' try.
retrieve_documents(query, k, e) ==
    IF e.retr = "tool_raise"
    THEN [raised |-> TRUE, exc |-> "vector store unavailable",
          content |-> <<>>, metadata |-> <<>>, calls |-> <<>>]
    ELSE LET docs == get_relevant_documents(query, k, e)
         IN [raised |-> FALSE, exc |-> "",
             content |-> [i \in 1..Len(docs) |-> docs[i].content],
             metadata |-> [i \in 1..Len(docs) |-> docs[i].filename],
             calls |-> <<Call("vector_search", k, Len(docs))>>]

----------------------------------------------------------------------------
\* nodes/moderation.py

moderateFailClosed(s, e) ==
    IF e.mod = "raise"
    THEN [ret |-> FALSE, calls |-> <<Call("moderation", 0, 0)>>]
    ELSE [ret |-> (e.mod # "flagged"), calls |-> <<Call("moderation", 0, 0)>>]

\* Moderation.moderate: safe iff the chain returns the input unchanged; an
\* error of the chain counts as safe.
moderate(s, e) ==
    IF e.mod = "raise"
    THEN [ret |-> TRUE, calls |-> <<Call("moderation", 0, 0)>>]
    ELSE LET input == IF Has(s, "input") THEN s.input ELSE ""
             response == [input |-> input,
                          output |-> IF e.mod = "flagged"
                                     THEN MODERATION_FLAGGED_OUTPUT ELSE input]
         IN [ret |-> (response.input = response.output),
             calls |-> <<Call("moderation", 0, 0)>>]

moderation_failed_handler(s) ==
    [EmptyDict EXCEPT !.keys = {"moderated", "answer", "is_last_step"},
                      !.moderated = FALSE,
                      !.answer = MODERATION_MESSAGE,
                      !.is_last_step = TRUE]

----------------------------------------------------------------------------
\* nodes/relevance.py

\* retrieve_documents(query), line 77. retrieve_documents is the
\* StructuredTool that @tool builds from a coroutine function; calling the
\* tool object takes its synchronous path, which raises before any search is
\* made (and a tool object that is not callable raises as well).
CallToolObject(query, e) ==
    Raises("StructuredTool does not support sync invocation.", <<>>)

\* prompt | self.llm, line 98, with prompt the str that format() returned: a
\* str cannot be coerced to a Runnable, so building the chain raises
\* TypeError and the judge model is not invoked.
PipePromptIntoLlm(prompt) ==
    Raises("Expected a Runnable, callable or dict. Instead got an unsupported type: <class 'str'>", <<>>)

\* await relevance_checker.ainvoke(prompt).relevance, line 99: the judge
\* model's structured answer. Evaluated only once the chain of line 98 is
\* built, which never happens.
JudgeAnswer(e) ==
    CASE e.judge = "true" -> Returns([EmptyDict EXCEPT !.is_relevant = TRUE],
                                     <<Call("judge", 0, 0)>>)
      [] e.judge = "false" -> Returns([EmptyDict EXCEPT !.is_relevant = FALSE],
                                      <<Call("judge", 0, 0)>>)
      [] e.judge = "raise" -> Raises("judge model unavailable", <<Call("judge", 0, 0)>>)
      [] e.judge = "malformed" -> Raises("output does not match RelevanceQuery",
                                         <<Call("judge", 0, 0)>>)

\* The try block of check_relevance, lines 71-104
TryCheckRelevance(s, e) ==
    LET query == GetInput(s)
        reload == GetDocuments(s) = <<>>
        direct == CallToolObject(query, e)
    IN IF reload /\ direct.raised
       THEN Raises(direct.exc, direct.calls)
       ELSE LET documents == IF reload THEN direct.value.documents ELSE GetDocuments(s)
                before == IF reload THEN direct.calls ELSE <<>>
            IN IF documents = <<>>
               THEN Returns([EmptyDict EXCEPT !.is_relevant = FALSE], before)
               ELSE LET chain == PipePromptIntoLlm(query)
                    IN IF chain.raised
                       THEN Raises(chain.exc, before)
                       ELSE LET j == JudgeAnswer(e)
                            IN IF j.raised
                               THEN Raises(j.exc, before \o j.calls)
                               ELSE Returns(j.value, before \o j.calls)

check_relevanceFailOpen(s, e) ==
    LET t == TryCheckRelevance(s, e)
    IN IF t.raised
       THEN [ret |-> TRUE, calls |-> t.calls]
       ELSE [ret |-> t.value.is_relevant, calls |-> t.calls]

\* RelevanceChecker.check_relevance: the try block's result, False on any
\* exception. Its assignments to state[...] change only the dict it was
\* handed; as a conditional-edge function it writes no channel.
check_relevance(s, e) ==
    LET t == TryCheckRelevance(s, e)
    IN IF t.raised
       THEN [ret |-> FALSE, calls |-> t.calls]
       ELSE [ret |-> t.value.is_relevant, calls |-> t.calls]

relevance_passed_handler(s) ==
    [EmptyDict EXCEPT !.keys = {"is_last_step"}, !.is_last_step = FALSE]

relevance_failed_handlerNotLast(s) ==
    [EmptyDict EXCEPT !.keys = {"answer"}, !.answer = RELEVANCE_FAILED_MESSAGE]

relevance_failed_handler(s) ==
    [EmptyDict EXCEPT !.keys = {"answer", "is_last_step"},
                      !.answer = RELEVANCE_FAILED_MESSAGE,
                      !.is_last_step = TRUE]

----------------------------------------------------------------------------
\* nodes/answer_generation.py

AnswerUpdate(text) ==
    [EmptyDict EXCEPT !.keys = {"answer", "is_last_step"},
                      !.answer = text, !.is_last_step = TRUE]

\* langdetect.detect(query)
detect(query) ==
    IF query \in UndetectableQueries
    THEN Raises("No features in text.", <<Call("langdetect", 0, 0)>>)
    ELSE [raised |-> FALSE, exc |-> "", value |-> "en",
          calls |-> <<Call("langdetect", 0, 0)>>]

\* self.llm.ainvoke(prompt).content
GeneratedText(e) == IF e.gen = "empty" THEN "" ELSE "Refunds are issued within 30 days."

\* The try block of generate_answer: the language is detected first, then
\* the empty-documents return, then the model call.
TryGenerateAnswer(s, e) ==
    LET query == GetInput(s)
        documents == GetDocuments(s)
        language == IF query # "" THEN detect(query)
                    ELSE [raised |-> FALSE, exc |-> "", value |-> "en", calls |-> <<>>]
    IN IF language.raised
       THEN Raises(language.exc, language.calls)
       ELSE IF documents = <<>>
            THEN Returns(AnswerUpdate(NO_DOCUMENTS_MESSAGE), language.calls)
            ELSE LET cs == language.calls \o <<Call("generation", 0, Len(documents))>>
                 IN IF e.gen = "raise"
                    THEN Raises("generation model unavailable", cs)
                    ELSE Returns(AnswerUpdate(GeneratedText(e)), cs)

generate_answerPropagates(s, e) ==
    LET t == TryGenerateAnswer(s, e)
    IN [raised |-> t.raised, exc |-> t.exc, upd |-> t.value, calls |-> t.calls]

\* AnswerGenerator.generate_answer: the try block's update, or the templated
\* error answer on any exception.
generate_answer(s, e) ==
    LET t == TryGenerateAnswer(s, e)
    IN IF t.raised
       THEN [raised |-> FALSE, exc |-> "",
             upd |-> AnswerUpdate(GENERATION_ERROR_PREFIX \o t.exc), calls |-> t.calls]
       ELSE [raised |-> FALSE, exc |-> "", upd |-> t.value, calls |-> t.calls]

----------------------------------------------------------------------------
\* rag_agent.py

END == "END"

ConditionalTargetSwapped(src, b) ==
    CASE src = "START" -> IF b THEN "moderation_failed" ELSE "moderation_passed"
      [] src = "process_documents" -> IF b THEN "relevance_passed" ELSE "relevance_failed"

\* add_conditional_edges: the node chosen by the edge function's result
ConditionalTarget(src, b) ==
    CASE src = "START" -> IF b THEN "moderation_passed" ELSE "moderation_failed"
      [] src = "process_documents" -> IF b THEN "relevance_passed" ELSE "relevance_failed"

\* add_edge
EdgeTarget(src) ==
    CASE src = "moderation_passed" -> "retriever"
      [] src = "retriever" -> "process_documents"
      [] src = "relevance_passed" -> "generate_answer"
      [] src = "moderation_failed" -> END
      [] src = "relevance_failed" -> END
      [] src = "generate_answer" -> END

\* add_node: the nodes registered in the graph
RegisteredNodes ==
    {"moderation_passed", "moderation_failed", "relevance_checker", "relevance_passed",
     "relevance_failed", "generate_answer", "retriever", "process_documents"}

\* every declared edge, both branches of a conditional edge included
DeclaredEdges ==
    { <<src, ConditionalTarget(src, b)>> : src \in {"START", "process_documents"}, b \in BOOLEAN }
    \cup { <<src, EdgeTarget(src)>> :
             src \in {"moderation_passed", "retriever", "relevance_passed",
                      "moderation_failed", "relevance_failed", "generate_answer"} }

RECURSIVE ReachableIn(_, _)
\* the nodes reached from the set S along at most n declared edges
ReachableIn(S, n) ==
    IF n = 0 THEN S
    ELSE ReachableIn(S \cup { e[2] : e \in { d \in DeclaredEdges : d[1] \in S } }, n - 1)

ReachableFrom(node) == ReachableIn({node}, Cardinality(RegisteredNodes) + 1)

\* RAGAgent._create_retrieval_message
_create_retrieval_message(s) ==
    [EmptyDict EXCEPT
        !.keys = {"messages", "moderated"},
        !.messages = << AIToolCallMessage(
                            "I'll search for relevant documents to answer your question.",
                            GetInput(s), GetRetrievalK(s)) >>,
        !.moderated = TRUE]

\* ToolNode([retrieve_documents]): runs the tool call of the last message and
\* answers with a ToolMessage. The content half of the tool's result becomes
\* the message content: a list of strings is serialised to a JSON array, an
\* empty list is kept. Whether an exception of the tool is turned into an
\* error ToolMessage (handled) or raised depends on the ToolNode's version.
ToolNode(s, e, handled) ==
    LET msgs == GetMessages(s)
        last == msgs[Len(msgs)]
    IN IF msgs = <<>> \/ last.type # "ai" \/ last.tool_call.name # "retrieve_documents"
       THEN Raises("No AIMessage with tool calls found in input", <<>>)
       ELSE LET r == retrieve_documents(last.tool_call.query, last.tool_call.k, e)
            IN IF r.raised
               THEN IF handled
                    THEN Returns([EmptyDict EXCEPT
                                    !.keys = {"messages"},
                                    !.messages = <<ToolMessage(StrContent("Error: " \o r.exc))>>],
                                 r.calls)
                    ELSE Raises(r.exc, r.calls)
               ELSE Returns([EmptyDict EXCEPT
                                !.keys = {"messages"},
                                !.messages = << ToolMessage(
                                    IF r.content = <<>> THEN ListContent(<<>>)
                                    ELSE JsonArrayContent(r.content)) >>],
                            r.calls)

\* _process_documents, one message of the loop: the documents it contributes.
\* Only a ToolMessage whose (parsed) content is a dict with a documents key
\* contributes; a str that is no JSON raises inside the inner try and is
\* skipped, a JSON array or a list is no dict.
ExtractDocuments(message) ==
    IF message.type = "tool"
    THEN CASE message.content.kind = "str" -> <<>>
           [] message.content.kind = "json_array" -> <<>>
           [] message.content.kind = "list" -> <<>>
           [] message.content.kind = "dict" -> message.content.items
    ELSE <<>>

RECURSIVE ExtractAll(_)
ExtractAll(msgs) ==
    IF msgs = <<>> THEN <<>>
    ELSE ExtractDocuments(Head(msgs)) \o ExtractAll(Tail(msgs))

DocumentsUpdate(docs) ==
    [EmptyDict EXCEPT !.keys = {"documents"}, !.documents = docs]

\* RAGAgent._process_documents: the documents found in the messages; when
\* there are none, retrieve_documents.ainvoke({query, k}) is called as a
\* fallback. Invoked with plain arguments the tool returns the content half
\* of its result, a list, which is no dict, so documents stays empty. An
\* exception of the fallback gives documents [] and error_message.
_process_documents(s, e) ==
    LET found == ExtractAll(GetMessages(s))
    IN IF found # <<>>
       THEN [upd |-> DocumentsUpdate(found), calls |-> <<>>]
       ELSE LET r == retrieve_documents(GetInput(s), GetRetrievalK(s), e)
                fallback == ListContent(r.content)
            IN IF r.raised
               THEN [upd |-> [EmptyDict EXCEPT
                                !.keys = {"documents", "error_message"},
                                !.documents = <<>>,
                                !.error_message = PROCESS_ERROR_PREFIX \o r.exc],
                     calls |-> r.calls]
               ELSE [upd |-> DocumentsUpdate(IF fallback.kind = "dict"
                                             THEN fallback.items ELSE found),
                     calls |-> r.calls]

\* invoke_agent, lines 232-236: the initial state. retrieval_k is the module
\* constant, not the parameter.
initial_state(query, retrieval_k) ==
    [EmptyDict EXCEPT
        !.keys = {"input", "retrieval_k", "messages"},
        !.input = query,
        !.retrieval_k = RETRIEVAL_TOP_K,
        !.messages = <<HumanMessage(query)>>]

invoke_agent_exceptReraises(query, e) == Raises(e, <<>>)

\* invoke_agent, lines 247-254: the except branch
invoke_agent_except(query, e) ==
    Returns([EmptyDict EXCEPT
                !.keys = {"input", "answer", "error_message", "is_last_step"},
                !.input = query,
                !.answer = AGENT_ERROR_PREFIX \o e,
                !.error_message = e,
                !.is_last_step = TRUE],
            <<>>)

----------------------------------------------------------------------------
\* chat_service.py

SetOf(seq) == { seq[i] : i \in 1..Len(seq) }

OrderingsWithRepeats(S) == [1..Cardinality(S) -> S]

\* list(set(sources)): the distinct elements, in the iteration order of the
\* set, which for str elements depends on the process's hash seed
Orderings(S) ==
    { f \in [1..Cardinality(S) -> S] : \A i, j \in 1..Cardinality(S) : f[i] = f[j] => i = j }

----------------------------------------------------------------------------
\* document_chunker.py

\* A document text: empty, whitespace only, or text that the splitter cuts
\* into segments base segments
PageContents ==
    { [kind |-> "empty", segments |-> 0], [kind |-> "whitespace", segments |-> 0] }
    \cup { [kind |-> "text", segments |-> n] : n \in 1..MaxChunks }

\* The metadata argument: a dict (isdict, with its items in map) or another value
NotADict == [isdict |-> FALSE, map |-> <<>>]
Dict(m) == [isdict |-> TRUE, map |-> m]
Metadatas ==
    { NotADict,
      Dict(<<>>),
      Dict([title |-> "test.txt", document_id |-> 7]),
      Dict([title |-> "test.txt", chunk_index |-> 0]) }

Segment(n) == "segment " \o ToString(n)

\* RecursiveCharacterTextSplitter.split_text / SemanticChunker: the base
\* segments of the text, left to right
split_text(page_content) == [n \in 1..page_content.segments |-> Segment(n)]

RECURSIVE Join(_)
\* "\n".join(parts)
Join(parts) ==
    IF parts = <<>> THEN ""
    ELSE IF Len(parts) = 1 THEN parts[1]
    ELSE parts[1] \o "\n" \o Join(Tail(parts))

Document(page_content, metadata) == [page_content |-> page_content, metadata |-> metadata]

\* _general_split, lines 148-161; i counts from 0
context_parts(base_chunks, i, context_window) ==
    LET preceding == [j \in 1..Min(context_window, i) |-> base_chunks[(i - j) + 1]]
        following == [j \in 1..Min(context_window, Len(base_chunks) - 1 - i)
                          |-> base_chunks[(i + j) + 1]]
    IN  preceding \o <<base_chunks[i + 1]>> \o following

enhanced_metadataOffByOne(metadata, i) ==
    [key \in DOMAIN metadata \cup {"chunk_index"} |->
        IF key = "chunk_index" THEN i + 1 ELSE metadata[key]]

enhanced_metadataIndexOnly(metadata, i) == [key \in {"chunk_index"} |-> i]

\* _general_split, lines 167-170: {**metadata, "chunk_index": i}
enhanced_metadata(metadata, i) ==
    [key \in DOMAIN metadata \cup {"chunk_index"} |->
        IF key = "chunk_index" THEN i ELSE metadata[key]]

ChunkerReturns(chunks) == [raised |-> "", msg |-> "", chunks |-> chunks]
ChunkerRaises(type, msg) == [raised |-> type, msg |-> msg, chunks |-> <<>>]

\* _general_split; splitter = "raise" is a splitter that raises
_general_split(page_content, metadata, context_window, splitter) ==
    IF splitter = "raise"
    THEN ChunkerRaises("RuntimeError", "Failed to perform general split: splitter error")
    ELSE LET base_chunks == split_text(page_content)
         IN  ChunkerReturns(
                [n \in 1..Len(base_chunks) |->
                    Document(Join(context_parts(base_chunks, n - 1, context_window)),
                             enhanced_metadata(metadata.map, n - 1))])

\* _semantic_split: create_documents([page_content], [metadata]) gives one
\* Document per segment, each with a copy of the metadata
_semantic_split(page_content, metadata, splitter) ==
    IF splitter = "raise"
    THEN ChunkerRaises("RuntimeError", "Failed to perform semantic split: embedding error")
    ELSE LET base_chunks == split_text(page_content)
         IN  ChunkerReturns([n \in 1..Len(base_chunks) |-> Document(base_chunks[n], metadata.map)])

index_documentUnvalidated(page_content, metadata, strategy, splitter) ==
    IF page_content.kind # "text" \/ ~metadata.isdict \/ splitter = "raise"
    THEN ChunkerReturns(<<>>)
    ELSE _general_split(page_content, metadata, DEFAULT_CONTEXT_WINDOW, splitter)

\* DocumentChunker.index_document
index_document(page_content, metadata, strategy, splitter) ==
    IF page_content.kind \in {"empty", "whitespace"}
    THEN ChunkerRaises("ValueError", "Raw text cannot be empty or whitespace only")
    ELSE IF ~metadata.isdict
    THEN ChunkerRaises("ValueError", "File metadata must be a dictionary")
    ELSE LET r == IF strategy = "semantic"
                  THEN _semantic_split(page_content, metadata, splitter)
                  ELSE _general_split(page_content, metadata, DEFAULT_CONTEXT_WINDOW, splitter)
         IN  IF r.raised # ""
             THEN ChunkerRaises("RuntimeError", "Document indexing failed: " \o r.msg)
             ELSE r

\* settings.py, ChunkingSettings: the defaults of the two size fields
CHUNK_SIZE == 500
OVERLAP_SIZE == 50

\* ChunkingSettings(): each field is its environment value (CHUNKING_ prefix)
\* when one is set, else its default; the fields are typed int and nothing
\* relates one field to the other
ChunkingSettings(chunk_size, overlap_size) ==
    [loaded |-> TRUE, CHUNK_SIZE |-> chunk_size, OVERLAP_SIZE |-> overlap_size]
NotLoaded == [loaded |-> FALSE, CHUNK_SIZE |-> CHUNK_SIZE, OVERLAP_SIZE |-> OVERLAP_SIZE]
EnvChunkSizes == {CHUNK_SIZE} \cup 1..MaxChunkSize
EnvOverlapSizes == {OVERLAP_SIZE} \cup 0..MaxChunkSize

\* RecursiveCharacterTextSplitter(chunk_size, chunk_overlap), lines 137-140:
\* the constructor raises ValueError for an overlap larger than the chunk size
\* and accepts every other pair
RecursiveCharacterTextSplitter(chunk_size, chunk_overlap) ==
    IF chunk_overlap > chunk_size THEN "raise" ELSE "ok"

----------------------------------------------------------------------------
\* pg_document_service.py

\* The service's chunker: the DocumentChunker, or a double of the unit tests
\* that returns no chunk or raises
chunker_index_document(chunker, page_content, metadata, strategy, splitter) ==
    CASE chunker = "returns_empty" -> ChunkerReturns(<<>>)
      [] chunker = "raises" -> ChunkerRaises("Exception", "Chunking failed")
      [] OTHER -> index_document(page_content, metadata, strategy, splitter)

\* One aadd_documents call: the chunks documents[from..to], whether it is a
\* sub-batch retry, whether it returned
AddCall(from, to, sub, ok) == [from |-> from, to |-> to, sub |-> sub, ok |-> ok]

NoWrite ==
    [ pc |-> "idle",
      page_content |-> [kind |-> "empty", segments |-> 0],
      metadata |-> NotADict,
      chunker |-> "DocumentChunker", strategy |-> "general",
      splitter |-> "ok", pgvector |-> "ok",
      documents |-> <<>>,
      opened |-> FALSE,          \* init_pgvector was called
      total_chunks |-> 0, processed_chunks |-> 0,
      i |-> 0, j |-> 0,
      adds |-> <<>>,             \* the aadd_documents calls that finished, in order
      inflight |-> <<>>,         \* the aadd_documents calls awaited and not yet finished
      settings |-> NotLoaded,    \* chunking_settings of document_chunker.py
      context_window |-> DEFAULT_CONTEXT_WINDOW,
      split_started |-> FALSE,   \* splitter.split_text was called
      warned |-> FALSE,          \* the partial-success warning was logged
      raised |-> "", status_code |-> 0, detail |-> "" ]

HTTPException(w, e) ==
    [w EXCEPT !.pc = "done", !.raised = "HTTPException", !.status_code = HTTP_500,
              !.detail = "Failed to save document to database: " \o e]

\* line 63: the chunker runs outside the try
call_index_document(w) ==
    LET r == chunker_index_document(w.chunker, w.page_content, w.metadata, w.strategy, w.splitter)
    IN  IF r.raised # ""
        THEN [w EXCEPT !.pc = "done", !.raised = r.raised, !.detail = r.msg]
        ELSE [w EXCEPT !.pc = "init_pgvector", !.documents = r.chunks]

\* lines 70-74
call_init_pgvector(w) ==
    IF w.pgvector = "raise"
    THEN HTTPException([w EXCEPT !.opened = TRUE], "vector store unavailable")
    ELSE [w EXCEPT !.pc = "batch", !.opened = TRUE,
                   !.total_chunks = Len(w.documents), !.processed_chunks = 0, !.i = 0]

BatchEndShort(w) == Min(w.i + BATCH_SIZE, Len(w.documents)) - 1

\* documents[i : i + BATCH_SIZE] is documents[i+1 .. BatchEnd] counting from 1
BatchEnd(w) == Min(w.i + BATCH_SIZE, Len(w.documents))
batch_size(w) == BatchEnd(w) - w.i

ShouldRetryByConfiguredSize(n) == BATCH_SIZE > SUB_BATCH_SIZE

\* line 96
ShouldRetry(n) == n > SUB_BATCH_SIZE

add_batchCountsFailed(w, ok) ==
    LET logged == [w EXCEPT !.adds = Append(@, AddCall(w.i + 1, BatchEnd(w), FALSE, ok)),
                            !.processed_chunks = @ + batch_size(w)]
    IN  IF ok
        THEN [logged EXCEPT !.i = @ + BATCH_SIZE]
        ELSE IF ShouldRetry(batch_size(w))
        THEN [logged EXCEPT !.pc = "sub_batch", !.j = 0]
        ELSE [logged EXCEPT !.i = @ + BATCH_SIZE]

\* lines 76-99, 115-118: one pass of the batch loop up to the retry decision
add_batch(w, ok) ==
    LET logged == [w EXCEPT !.adds = Append(@, AddCall(w.i + 1, BatchEnd(w), FALSE, ok))]
    IN  IF ok
        THEN [logged EXCEPT !.processed_chunks = @ + batch_size(w), !.i = @ + BATCH_SIZE]
        ELSE IF ShouldRetry(batch_size(w))
        THEN [logged EXCEPT !.pc = "sub_batch", !.j = 0]
        ELSE [logged EXCEPT !.i = @ + BATCH_SIZE]

\* batch[j : j + SUB_BATCH_SIZE] is documents[i+j+1 .. SubBatchEnd] counting from 1
SubBatchEnd(w) == w.i + Min(w.j + SUB_BATCH_SIZE, batch_size(w))

AfterSubBatch(w) ==
    IF w.j + SUB_BATCH_SIZE < batch_size(w)
    THEN [w EXCEPT !.j = @ + SUB_BATCH_SIZE]
    ELSE [w EXCEPT !.pc = "batch", !.j = 0, !.i = @ + BATCH_SIZE]

add_sub_batchAborts(w, ok) ==
    LET logged == [w EXCEPT !.adds = Append(@, AddCall(w.i + w.j + 1, SubBatchEnd(w), TRUE, ok))]
    IN  IF ok
        THEN AfterSubBatch([logged EXCEPT !.processed_chunks = @ + (SubBatchEnd(w) - (w.i + w.j))])
        ELSE [logged EXCEPT !.pc = "batch", !.j = 0, !.i = Len(w.documents)]

\* lines 101-114: one pass of the sub-batch loop
add_sub_batch(w, ok) ==
    LET logged == [w EXCEPT !.adds = Append(@, AddCall(w.i + w.j + 1, SubBatchEnd(w), TRUE, ok))]
    IN  IF ok
        THEN AfterSubBatch([logged EXCEPT !.processed_chunks = @ + (SubBatchEnd(w) - (w.i + w.j))])
        ELSE AfterSubBatch(logged)

\* an aadd_documents call that was started: the chunks documents[from..to]
Awaited(from, to, sub) == [from |-> from, to |-> to, sub |-> sub]
Finished(w, call) == [w EXCEPT !.inflight = SelectSeq(@, LAMBDA c : c # call)]

start_batchNotAwaited(w) ==
    [w EXCEPT !.inflight = Append(@, Awaited(w.i + 1, BatchEnd(w), FALSE)),
              !.i = @ + BATCH_SIZE]

\* line 86 up to the await: the call for the batch is issued
start_batch(w) ==
    [w EXCEPT !.pc = "await_batch", !.inflight = Append(@, Awaited(w.i + 1, BatchEnd(w), FALSE))]

\* lines 86-99, 115-118: the awaited call returns or raises
return_batch(w, ok) ==
    add_batch(Finished([w EXCEPT !.pc = "batch"], Awaited(w.i + 1, BatchEnd(w), FALSE)), ok)

\* line 104 up to the await: the call for the sub-batch is issued
start_sub_batch(w) ==
    [w EXCEPT !.pc = "await_sub_batch",
              !.inflight = Append(@, Awaited(w.i + w.j + 1, SubBatchEnd(w), TRUE))]

\* lines 104-114: the awaited call returns or raises
return_sub_batch(w, ok) ==
    add_sub_batch(Finished([w EXCEPT !.pc = "sub_batch"],
                           Awaited(w.i + w.j + 1, SubBatchEnd(w), TRUE)), ok)

after_batchesStrict(w) ==
    IF w.processed_chunks < w.total_chunks \/ w.processed_chunks = 0
    THEN HTTPException(w, "No chunks were successfully processed")
    ELSE [w EXCEPT !.pc = "done"]

\* lines 120-135: after the batch loop
after_batches(w) ==
    IF w.processed_chunks = 0
    THEN HTTPException(w, "No chunks were successfully processed")
    ELSE [w EXCEPT !.pc = "done", !.warned = w.processed_chunks < w.total_chunks]

----------------------------------------------------------------------------
\* routes.py, upload_document and delete_document, over the two stores

\* The clients sending requests at the same time; each works on its own document
Procs == {"p1", "p2"}

\* document_service.py line 56: uuid.uuid4(), as str() writes it (line 77)
uuid4(p) == IF p = "p1" THEN "0a1b" ELSE "2c3d"

\* document_service.py line 132: uuid.UUID(document_id) reads hex digits of
\* either case and raises ValueError for other text
uuid_UUID(document_id) ==
    CASE document_id \in {"0a1b", "0A1B"} -> "0a1b"
      [] document_id \in {"2c3d", "2C3D"} -> "2c3d"
      [] OTHER -> "ValueError"

\* The path parameters a client sends for its document
DocumentIds(p) ==
    { s \in {"0a1b", "0A1B", "2c3d", "2C3D"} : uuid_UUID(s) = uuid4(p) } \cup {"not-a-uuid"}

\* The texts a client uploads: one chunk, or one chunk more than a sub-batch
UploadContents == { [kind |-> "text", segments |-> n] : n \in {1, SUB_BATCH_SIZE + 1} }

PARTIAL_DELETE_DETAIL == "was deleted from main database, but failed to delete from vector store"

NoRequest ==
    [ pc |-> "idle",
      op |-> "none",                 \* upload or delete
      deletes |-> 0,                 \* delete requests this client has sent
      uploaded |-> FALSE,            \* an upload of this client has finished
      document_id |-> "",            \* result.document_id / the path parameter
      w |-> NoWrite,                 \* pg_vector.create_document in progress
      create_document_raised |-> FALSE,
      primary_removed |-> FALSE,     \* document_service.delete_document returned True
      vector_attempted |-> FALSE,    \* delete_document_by_metadata was called
      vector_failed |-> FALSE,       \* delete_document_by_metadata raised
      vector_deleted_count |-> 0,    \* the rowcount delete_document_by_metadata returned
      status_code |-> 0, detail |-> "", success |-> FALSE ]

NoStores ==
    [ primary |-> {},                \* ids of the rows of the documents table
      vector |-> EmptyBag,           \* rows of the vector table
      proc |-> [p \in Procs |-> NoRequest] ]

Request(r, op) ==
    [NoRequest EXCEPT !.op = op, !.uploaded = r.uploaded,
                      !.deletes = r.deletes + (IF op = "delete" THEN 1 ELSE 0)]

Respond(r, status_code, detail) ==
    [r EXCEPT !.pc = "responded", !.status_code = status_code, !.detail = detail,
              !.success = (status_code \in {HTTP_200, HTTP_201}),
              !.uploaded = (@ \/ r.op = "upload"),
              !.w = NoWrite]

\* upload_document, lines 186-206: validate_file, parse, summarize
upload_start(d, p, file) ==
    LET r == Request(d.proc[p], "upload")
    IN  [d EXCEPT !.proc[p] =
            IF file = "rejected"
            THEN Respond(r, HTTP_400, "File type not supported")
            ELSE [r EXCEPT !.pc = "create_document"]]

\* DocumentService.create_document: add, commit; rollback and HTTPException
\* when that raises
document_service_create_document(d, p, ok) ==
    IF ok
    THEN [d EXCEPT !.primary = @ \cup {uuid4(p)},
                   !.proc[p].document_id = uuid4(p),
                   !.proc[p].pc = "pg_vector"]
    ELSE [d EXCEPT !.proc[p] = Respond(@, HTTP_500, "Failed to save document to database")]

\* upload_document's except clauses over what pg_vector.create_document raised
upload_response(r, w) ==
    IF w.raised = ""
    THEN Respond(r, HTTP_201, "")
    ELSE IF w.raised = "HTTPException"
    THEN Respond([r EXCEPT !.create_document_raised = TRUE], w.status_code, w.detail)
    ELSE Respond([r EXCEPT !.create_document_raised = TRUE], HTTP_500,
                 "An unexpected error occurred during file upload")

\* create_document is awaited until its writer is done
Progress(r, w) ==
    IF w.pc = "done" THEN upload_response(r, w) ELSE [r EXCEPT !.pc = "awaiting", !.w = w]

\* upload_document, lines 209-213: the document id goes into the metadata,
\* PGDocumentService is constructed, create_document runs its chunker
pg_vector_start(d, p, constructed, page_content, splitter, pgvector) ==
    LET r == d.proc[p]
        metadata == Dict([title |-> "test.txt", document_id |-> r.document_id])
        w == [NoWrite EXCEPT !.pc = "index_document", !.page_content = page_content,
                             !.metadata = metadata, !.splitter = splitter,
                             !.pgvector = pgvector]
    IN  [d EXCEPT !.proc[p] =
            IF ~constructed
            THEN Respond(r, HTTP_500, "An unexpected error occurred during file upload")
            ELSE Progress(r, call_index_document(w))]

pg_vector_init(d, p) ==
    [d EXCEPT !.proc[p] = Progress(@, call_init_pgvector(@.w))]

\* The rows an aadd_documents call for documents[from..to] inserts
Rows(w, from, to) == SetToBag({ w.documents[n] : n \in from..to })

\* vectorstore.aadd_documents(documents=batch): it returns after the insert,
\* or raises, before the insert or after it
pg_vector_add_batch(d, p, ok, inserted) ==
    LET w == d.proc[p].w
    IN  [d EXCEPT !.vector = IF ok \/ inserted THEN @ (+) Rows(w, w.i + 1, BatchEnd(w)) ELSE @,
                  !.proc[p].w = add_batch(w, ok)]

pg_vector_add_sub_batch(d, p, ok, inserted) ==
    LET w == d.proc[p].w
    IN  [d EXCEPT !.vector = IF ok \/ inserted
                             THEN @ (+) Rows(w, w.i + w.j + 1, SubBatchEnd(w)) ELSE @,
                  !.proc[p].w = add_sub_batch(w, ok)]

\* create_document after its loop, then upload_document's return or except
pg_vector_finish(d, p) ==
    [d EXCEPT !.proc[p] = upload_response(@, after_batches(@.w))]

\* DocumentService.delete_document
document_service_delete_document(primary, document_id) ==
    LET doc_uuid == uuid_UUID(document_id)
    IN  IF doc_uuid = "ValueError" THEN [success |-> FALSE, primary |-> primary]
        ELSE IF doc_uuid \in primary
        THEN [success |-> TRUE, primary |-> primary \ {doc_uuid}]
        ELSE [success |-> FALSE, primary |-> primary]

\* delete_document, lines 335-342
delete_start(d, p, document_id, constructed) ==
    LET r == [Request(d.proc[p], "delete") EXCEPT !.document_id = document_id]
        deleted == document_service_delete_document(d.primary, document_id)
    IN  IF ~constructed
        THEN [d EXCEPT !.proc[p] = Respond(r, HTTP_500, "Internal Server Error")]
        ELSE IF ~deleted.success
        THEN [d EXCEPT !.proc[p] = Respond(r, HTTP_404, "Document not found")]
        ELSE [d EXCEPT !.primary = deleted.primary,
                       !.proc[p] = [r EXCEPT !.pc = "vector_delete", !.primary_removed = TRUE]]

delete_document_by_metadataUnfiltered(vector, document_id) == EmptyBag

\* DELETE FROM table WHERE langchain_metadata->>'document_id' = :document_id
delete_document_by_metadata(vector, document_id) ==
    [row \in { x \in DOMAIN vector : x.metadata.document_id # document_id } |-> vector[row]]

delete_responseSwallowed(r, ok, deleted_count) ==
    Respond([r EXCEPT !.vector_attempted = TRUE, !.vector_failed = ~ok], HTTP_200, "")

\* delete_document, lines 344-372
delete_response(r, ok, deleted_count) ==
    IF ok
    THEN Respond([r EXCEPT !.vector_attempted = TRUE, !.vector_deleted_count = deleted_count],
                 HTTP_200, "")
    ELSE Respond([r EXCEPT !.vector_attempted = TRUE, !.vector_failed = TRUE],
                 HTTP_500, PARTIAL_DELETE_DETAIL)

\* delete_document, lines 348-372: the vector rows are deleted or the
\* statement raises and its transaction is rolled back
delete_vector(d, p, ok) ==
    LET remaining == delete_document_by_metadata(d.vector, d.proc[p].document_id)
    IN  [d EXCEPT !.vector = IF ok THEN remaining ELSE @,
                  !.proc[p] = delete_response(@, ok, BagCardinality(d.vector)
                                                     - BagCardinality(remaining))]

NoRet == [raised |-> FALSE, exc |-> "", answer |-> "", sources |-> <<>>]

\* ChatService.ask_question after invoke_agent returned r
ask_question(r, unique_sources) ==
    IF r.raised
    THEN [raised |-> TRUE, exc |-> ASK_ERROR_PREFIX \o r.exc, answer |-> "", sources |-> <<>>]
    ELSE [raised |-> FALSE, exc |-> "",
          answer |-> IF Has(r.value, "answer") THEN r.value.answer ELSE ASK_DEFAULT_ANSWER,
          sources |-> unique_sources]

----------------------------------------------------------------------------
\* The run of one question

Bool(b) == IF b THEN "true" ELSE "false"
NoResult == Returns(EmptyDict, <<>>)

Init ==
    /\ pc = "idle"
    /\ question = ""
    /\ kArg = 0
    /\ env = NoEnv
    /\ st = EmptyDict
    /\ calls = <<>>
    /\ trace = <<>>
    /\ modResult = "none"
    /\ relResult = "none"
    /\ exc = ""
    /\ result = NoResult
    /\ ret = NoRet
    /\ wr = NoWrite
    /\ db = NoStores

\* ask_question(question, k=5) is called; kIn = 0 stands for k omitted.
\* The capabilities' behaviour for the run is fixed here.
AskQuestion ==
    /\ pc = "idle"
    /\ \E q \in Queries, kIn \in 0..MaxK, e \in Envs :
          /\ question' = q
          /\ kArg' = IF kIn = 0 THEN ASK_DEFAULT_K ELSE kIn
          /\ env' = e
    /\ pc' = "invoke_agent"
    /\ UNCHANGED <<db, st, calls, trace, modResult, relResult, exc, result, ret, wr>>

\* invoke_agent(question, retrieval_k=k): builds the initial state and
\* compiles the graph. compile() of a graph with a node that no edge reaches
\* (relevance_checker) raises in the langgraph versions that validate
\* reachability and succeeds in the others.
InvokeAgent ==
    /\ pc = "invoke_agent"
    /\ \E compiled \in BOOLEAN :
          IF compiled
          THEN /\ st' = initial_state(question, kArg)
               /\ pc' = "START"
               /\ exc' = exc
          ELSE /\ st' = st
               /\ pc' = "raised"
               /\ exc' = "Node relevance_checker is not reachable"
    /\ UNCHANGED <<db, question, kArg, env, calls, trace, modResult, relResult, result, ret, wr>>

\* START's conditional edge: Moderation.moderate
Moderate ==
    /\ pc = "START"
    /\ LET r == moderate(st, env)
       IN /\ modResult' = Bool(r.ret)
          /\ calls' = calls \o r.calls
          /\ pc' = ConditionalTarget("START", r.ret)
    /\ UNCHANGED <<db, question, kArg, env, st, trace, relResult, exc, result, ret, wr>>

\* A node that returns update upd and is left by a plain edge
RunNode(name, upd) ==
    /\ pc = name
    /\ st' = Merge(st, upd)
    /\ trace' = Append(trace, name)
    /\ pc' = EdgeTarget(name)

ModerationPassed ==
    /\ RunNode("moderation_passed", _create_retrieval_message(st))
    /\ UNCHANGED <<db, question, kArg, env, calls, modResult, relResult, exc, result, ret, wr>>

ModerationFailed ==
    /\ RunNode("moderation_failed", moderation_failed_handler(st))
    /\ UNCHANGED <<db, question, kArg, env, calls, modResult, relResult, exc, result, ret, wr>>

\* The retriever node; an exception it raises leaves the graph
Retriever ==
    /\ pc = "retriever"
    /\ \E handled \in BOOLEAN :
          LET r == ToolNode(st, env, handled)
          IN /\ calls' = calls \o r.calls
             /\ trace' = Append(trace, "retriever")
             /\ IF r.raised
                THEN /\ pc' = "raised"
                     /\ exc' = r.exc
                     /\ st' = st
                ELSE /\ pc' = EdgeTarget("retriever")
                     /\ exc' = exc
                     /\ st' = Merge(st, r.value)
    /\ UNCHANGED <<db, question, kArg, env, modResult, relResult, result, ret, wr>>

\* The process_documents node; its conditional edge is evaluated next
ProcessDocuments ==
    /\ pc = "process_documents"
    /\ LET r == _process_documents(st, env)
       IN /\ st' = Merge(st, r.upd)
          /\ calls' = calls \o r.calls
    /\ trace' = Append(trace, "process_documents")
    /\ pc' = "check_relevance"
    /\ UNCHANGED <<db, question, kArg, env, modResult, relResult, exc, result, ret, wr>>

\* process_documents' conditional edge: RelevanceChecker.check_relevance
CheckRelevance ==
    /\ pc = "check_relevance"
    /\ LET r == check_relevance(st, env)
       IN /\ relResult' = Bool(r.ret)
          /\ calls' = calls \o r.calls
          /\ pc' = ConditionalTarget("process_documents", r.ret)
    /\ UNCHANGED <<db, question, kArg, env, st, trace, modResult, exc, result, ret, wr>>

RelevancePassed ==
    /\ RunNode("relevance_passed", relevance_passed_handler(st))
    /\ UNCHANGED <<db, question, kArg, env, calls, modResult, relResult, exc, result, ret, wr>>

RelevanceFailed ==
    /\ RunNode("relevance_failed", relevance_failed_handler(st))
    /\ UNCHANGED <<db, question, kArg, env, calls, modResult, relResult, exc, result, ret, wr>>

GenerateAnswer ==
    /\ pc = "generate_answer"
    /\ LET r == generate_answer(st, env)
       IN /\ calls' = calls \o r.calls
          /\ trace' = Append(trace, "generate_answer")
          /\ IF r.raised
             THEN /\ pc' = "raised"
                  /\ exc' = r.exc
                  /\ st' = st
             ELSE /\ pc' = EdgeTarget("generate_answer")
                  /\ exc' = exc
                  /\ st' = Merge(st, r.upd)
    /\ UNCHANGED <<db, question, kArg, env, modResult, relResult, result, ret, wr>>

\* app.ainvoke returns the final state and invoke_agent returns it
GraphEnd ==
    /\ pc = END
    /\ result' = Returns(st, <<>>)
    /\ pc' = "returned"
    /\ UNCHANGED <<db, question, kArg, env, st, calls, trace, modResult, relResult, exc, ret, wr>>

\* invoke_agent's except branch
InvokeExcept ==
    /\ pc = "raised"
    /\ result' = invoke_agent_except(question, exc)
    /\ pc' = "returned"
    /\ UNCHANGED <<db, question, kArg, env, st, calls, trace, modResult, relResult, exc, ret, wr>>

\* ask_question takes answer and sources out of the result
AskReturn ==
    /\ pc = "returned"
    /\ \E unique_sources \in
            Orderings(IF ~result.raised /\ Has(result.value, "sources")
                      THEN SetOf(result.value.sources) ELSE {}) :
          ret' = ask_question(result, unique_sources)
    /\ pc' = "done"
    /\ UNCHANGED <<db, question, kArg, env, st, calls, trace, modResult, relResult, exc, result, wr>>

\* test_chat_service.py: RAGAgent is patched; invoke_agent returns the dict the
\* test prepared, or raises.
Filenames == {"document1.pdf", "document2.txt", "a.txt"}
AgentDoubleAnswer == "Based on the documents, here is the answer."

AgentDoubleResults ==
    { Returns([EmptyDict EXCEPT !.keys = {"answer", "sources"},
                                !.answer = AgentDoubleAnswer, !.sources = src], <<>>) :
        src \in SeqsUpTo(Filenames, MaxSources) }
    \cup { Returns([EmptyDict EXCEPT !.keys = {"sources"}, !.sources = src], <<>>) :
        src \in SeqsUpTo(Filenames, MaxSources) }
    \cup { Returns([EmptyDict EXCEPT !.keys = {"answer"}, !.answer = AgentDoubleAnswer], <<>>),
           Returns(EmptyDict, <<>>),
           Raises("RAG agent failed", <<>>) }

\* ask_question, lines 40-54, over a patched RAGAgent
AskAgentDouble ==
    /\ pc = "idle"
    /\ \E q \in Queries, kIn \in {0, RETRIEVAL_TOP_K},
          r \in AgentDoubleResults :
          /\ question' = q
          /\ kArg' = IF kIn = 0 THEN ASK_DEFAULT_K ELSE kIn
          /\ result' = r
    /\ pc' = "returned"
    /\ UNCHANGED <<db, env, st, calls, trace, modResult, relResult, exc, ret, wr>>

\* check_relevance returns False for every state (see TryCheckRelevance), so
\* no run of the graph from START reaches relevance_passed or
\* generate_answer: those two nodes are exercised by SpecNode below.
Next ==
    \/ AskQuestion
    \/ InvokeAgent
    \/ Moderate
    \/ ModerationPassed
    \/ ModerationFailed
    \/ Retriever
    \/ ProcessDocuments
    \/ CheckRelevance
    \/ RelevanceFailed
    \/ GraphEnd
    \/ InvokeExcept
    \/ AskReturn

Spec == Init /\ [][Next]_vars

----------------------------------------------------------------------------
\* The graph entered at one of its steps with any State: every node and edge
\* function is applied to every state of the bounded set.

Contents == { r.content : r \in StoreRecords }

NodeStates ==
    { [EmptyDict EXCEPT
          !.keys = {"input", "retrieval_k", "messages"} \cup dk,
          !.input = q,
          !.retrieval_k = RETRIEVAL_TOP_K,
          !.messages = <<HumanMessage(q)>>,
          !.documents = d] :
        q \in Queries,
        d \in SeqsUpTo(Contents, MaxDocs),
        dk \in {{}, {"documents"}} }

NodeEntries == {"START", "check_relevance", "relevance_passed", "generate_answer"}

InitNode ==
    /\ pc \in NodeEntries
    /\ st \in { s \in NodeStates : Has(s, "documents") \/ s.documents = <<>> }
    /\ env \in Envs
    /\ question = st.input
    /\ kArg = ASK_DEFAULT_K
    /\ calls = <<>>
    /\ trace = <<>>
    /\ modResult = "none"
    /\ relResult = "none"
    /\ exc = ""
    /\ result = NoResult
    /\ ret = NoRet
    /\ wr = NoWrite
    /\ db = NoStores

NextNode ==
    \/ Moderate
    \/ ModerationPassed
    \/ ModerationFailed
    \/ Retriever
    \/ ProcessDocuments
    \/ CheckRelevance
    \/ RelevancePassed
    \/ RelevanceFailed
    \/ GenerateAnswer
    \/ GraphEnd

SpecNode == InitNode /\ [][NextNode]_vars

----------------------------------------------------------------------------
\* ask_question over a patched RAGAgent, as the unit tests run it

NextAsk ==
    \/ AskAgentDouble
    \/ AskReturn

SpecAsk == Init /\ [][NextAsk]_vars

----------------------------------------------------------------------------
\* PGDocumentService.create_document

\* The calls of create_document: a document and its metadata with the
\* DocumentChunker under either strategy, or a chunker double
CreateDocumentCalls ==
    { [NoWrite EXCEPT !.pc = "index_document", !.page_content = t, !.metadata = m,
                      !.strategy = sg, !.splitter = sp, !.pgvector = pg] :
        t \in PageContents, m \in Metadatas, sg \in {"general"},
        sp \in {"ok", "raise"}, pg \in {"ok", "raise"} }
    \cup
    { [NoWrite EXCEPT !.pc = "index_document", !.page_content = t,
                      !.metadata = Dict([title |-> "test.txt", document_id |-> 7]),
                      !.strategy = "semantic", !.splitter = sp] :
        t \in PageContents, sp \in {"ok", "raise"} }
    \cup
    { [NoWrite EXCEPT !.pc = "index_document",
                      !.page_content = [kind |-> k, segments |-> 0],
                      !.metadata = Dict([title |-> "test.txt"]),
                      !.chunker = c, !.pgvector = pg] :
        k \in {"empty"}, c \in {"returns_empty", "raises"}, pg \in {"ok", "raise"} }

CreateDocument ==
    /\ wr.pc = "idle"
    /\ wr' \in CreateDocumentCalls
    /\ UNCHANGED <<db, pc, question, kArg, env, st, calls, trace, modResult, relResult, exc, result, ret>>

IndexDocument ==
    /\ wr.pc = "index_document"
    /\ wr' = call_index_document(wr)
    /\ UNCHANGED <<db, pc, question, kArg, env, st, calls, trace, modResult, relResult, exc, result, ret>>

InitPgvector ==
    /\ wr.pc = "init_pgvector"
    /\ wr' = call_init_pgvector(wr)
    /\ UNCHANGED <<db, pc, question, kArg, env, st, calls, trace, modResult, relResult, exc, result, ret>>

\* vectorstore.aadd_documents(documents=batch) returns or raises
AddBatch ==
    /\ wr.pc = "batch"
    /\ wr.i < wr.total_chunks
    /\ \E ok \in BOOLEAN : wr' = add_batch(wr, ok)
    /\ UNCHANGED <<db, pc, question, kArg, env, st, calls, trace, modResult, relResult, exc, result, ret>>

\* vectorstore.aadd_documents(documents=sub_batch) returns or raises
AddSubBatch ==
    /\ wr.pc = "sub_batch"
    /\ \E ok \in BOOLEAN : wr' = add_sub_batch(wr, ok)
    /\ UNCHANGED <<db, pc, question, kArg, env, st, calls, trace, modResult, relResult, exc, result, ret>>

AfterBatches ==
    /\ wr.pc = "batch"
    /\ wr.i >= wr.total_chunks
    /\ wr' = after_batches(wr)
    /\ UNCHANGED <<db, pc, question, kArg, env, st, calls, trace, modResult, relResult, exc, result, ret>>

NextDoc ==
    \/ CreateDocument
    \/ IndexDocument
    \/ InitPgvector
    \/ AddBatch
    \/ AddSubBatch
    \/ AfterBatches

SpecDoc == Init /\ [][NextDoc]_vars

----------------------------------------------------------------------------
\* create_document with every await of aadd_documents as two steps: the call
\* is issued, the call returns or raises

StartBatch ==
    /\ wr.pc = "batch"
    /\ wr.i < wr.total_chunks
    /\ wr' = start_batch(wr)
    /\ UNCHANGED <<db, pc, question, kArg, env, st, calls, trace, modResult, relResult, exc, result, ret>>

ReturnBatch ==
    /\ wr.pc = "await_batch"
    /\ \E ok \in BOOLEAN : wr' = return_batch(wr, ok)
    /\ UNCHANGED <<db, pc, question, kArg, env, st, calls, trace, modResult, relResult, exc, result, ret>>

StartSubBatch ==
    /\ wr.pc = "sub_batch"
    /\ wr' = start_sub_batch(wr)
    /\ UNCHANGED <<db, pc, question, kArg, env, st, calls, trace, modResult, relResult, exc, result, ret>>

ReturnSubBatch ==
    /\ wr.pc = "await_sub_batch"
    /\ \E ok \in BOOLEAN : wr' = return_sub_batch(wr, ok)
    /\ UNCHANGED <<db, pc, question, kArg, env, st, calls, trace, modResult, relResult, exc, result, ret>>

NextDocSteps ==
    \/ CreateDocument
    \/ IndexDocument
    \/ InitPgvector
    \/ StartBatch
    \/ ReturnBatch
    \/ StartSubBatch
    \/ ReturnSubBatch
    \/ AfterBatches

SpecDocSteps == Init /\ [][NextDocSteps]_vars

----------------------------------------------------------------------------
\* The chunker under a loaded configuration

\* document_chunker.py line 18: chunking_settings = ChunkingSettings()
LoadChunkingSettings ==
    /\ wr.pc = "idle"
    /\ ~wr.settings.loaded
    /\ \E chunk_size \in EnvChunkSizes, overlap_size \in EnvOverlapSizes :
          wr' = [wr EXCEPT !.settings = ChunkingSettings(chunk_size, overlap_size)]
    /\ UNCHANGED <<db, pc, question, kArg, env, st, calls, trace, modResult, relResult, exc, result, ret>>

Chunked(w, page_content, metadata, context_window, splitter, r) ==
    [w EXCEPT !.pc = "chunked",
              !.page_content = page_content,
              !.metadata = metadata,
              !.context_window = context_window,
              !.splitter = splitter,
              !.split_started = (splitter = "ok"),
              !.documents = r.chunks,
              !.raised = r.raised,
              !.detail = r.msg]

\* DocumentChunker._general_split called with a context window
GeneralSplit ==
    /\ wr.pc = "idle"
    /\ wr.settings.loaded
    /\ \E page_content \in { p \in PageContents : p.kind = "text" },
          metadata \in { m \in Metadatas : m.isdict },
          context_window \in 0..MaxWindow :
          LET splitter == RecursiveCharacterTextSplitter(wr.settings.CHUNK_SIZE,
                                                         wr.settings.OVERLAP_SIZE)
          IN  wr' = Chunked(wr, page_content, metadata, context_window, splitter,
                            _general_split(page_content, metadata, context_window, splitter))
    /\ UNCHANGED <<db, pc, question, kArg, env, st, calls, trace, modResult, relResult, exc, result, ret>>

\* DocumentChunker.index_document under the general strategy
ChunkerIndexDocument ==
    /\ wr.pc = "idle"
    /\ wr.settings.loaded
    /\ \E page_content \in PageContents, metadata \in Metadatas :
          LET splitter == RecursiveCharacterTextSplitter(wr.settings.CHUNK_SIZE,
                                                         wr.settings.OVERLAP_SIZE)
              r == index_document(page_content, metadata, "general", splitter)
              validated == page_content.kind = "text" /\ metadata.isdict
          IN  wr' = Chunked(wr, page_content, metadata, DEFAULT_CONTEXT_WINDOW,
                            IF validated THEN splitter ELSE "none", r)
    /\ UNCHANGED <<db, pc, question, kArg, env, st, calls, trace, modResult, relResult, exc, result, ret>>

NextChunker ==
    \/ LoadChunkingSettings
    \/ GeneralSplit
    \/ ChunkerIndexDocument

SpecChunker == Init /\ [][NextChunker]_vars

----------------------------------------------------------------------------
\* Upload and delete requests of two clients over the two stores

Others == <<pc, question, kArg, env, st, calls, trace, modResult, relResult, exc, result, ret, wr>>

CanSend(p) == db.proc[p].pc \in {"idle", "responded"}

UploadStart(p) ==
    /\ CanSend(p)
    /\ ~db.proc[p].uploaded
    /\ \E file \in {"ok", "rejected"} : db' = upload_start(db, p, file)
    /\ UNCHANGED Others

UploadCreateDocument(p) ==
    /\ db.proc[p].pc = "create_document"
    /\ \E ok \in BOOLEAN : db' = document_service_create_document(db, p, ok)
    /\ UNCHANGED Others

UploadPgVector(p) ==
    /\ db.proc[p].pc = "pg_vector"
    /\ \E constructed \in BOOLEAN, page_content \in UploadContents,
          splitter \in {"ok", "raise"}, pgvector \in {"ok", "raise"} :
          db' = pg_vector_start(db, p, constructed, page_content, splitter, pgvector)
    /\ UNCHANGED Others

UploadInitPgvector(p) ==
    /\ db.proc[p].w.pc = "init_pgvector"
    /\ db' = pg_vector_init(db, p)
    /\ UNCHANGED Others

UploadAddBatch(p) ==
    /\ db.proc[p].w.pc = "batch"
    /\ db.proc[p].w.i < db.proc[p].w.total_chunks
    /\ \E ok, inserted \in BOOLEAN : db' = pg_vector_add_batch(db, p, ok, inserted)
    /\ UNCHANGED Others

UploadAddSubBatch(p) ==
    /\ db.proc[p].w.pc = "sub_batch"
    /\ \E ok, inserted \in BOOLEAN : db' = pg_vector_add_sub_batch(db, p, ok, inserted)
    /\ UNCHANGED Others

UploadFinish(p) ==
    /\ db.proc[p].w.pc = "batch"
    /\ db.proc[p].w.i >= db.proc[p].w.total_chunks
    /\ db' = pg_vector_finish(db, p)
    /\ UNCHANGED Others

DeleteStart(p) ==
    /\ CanSend(p)
    /\ db.proc[p].deletes < MaxDeletes
    /\ \E document_id \in DocumentIds(p), constructed \in BOOLEAN :
          db' = delete_start(db, p, document_id, constructed)
    /\ UNCHANGED Others

DeleteVector(p) ==
    /\ db.proc[p].pc = "vector_delete"
    /\ \E ok \in BOOLEAN : db' = delete_vector(db, p, ok)
    /\ UNCHANGED Others

NextStores ==
    \E p \in Procs :
        \/ UploadStart(p)
        \/ UploadCreateDocument(p)
        \/ UploadPgVector(p)
        \/ UploadInitPgvector(p)
        \/ UploadAddBatch(p)
        \/ UploadAddSubBatch(p)
        \/ UploadFinish(p)
        \/ DeleteStart(p)
        \/ DeleteVector(p)

SpecStores == Init /\ [][NextStores]_vars

----------------------------------------------------------------------------
\* Properties

Nodes(tr) == { tr[i] : i \in 1..Len(tr) }
LastNode == IF trace = <<>> THEN "" ELSE trace[Len(trace)]
TerminalNodes == {"moderation_failed", "relevance_failed", "generate_answer"}
Retrieved == { i \in CallsOf("vector_search") : calls[i].n >= 1 }

\* C1: the stages are gated in order. The retriever is invoked only after
\* moderation returned safe, the relevance step runs only after the
\* retriever node, the generation model is invoked only after the relevance
\* edge returned true; after an unsafe verdict there is no retrieval, no
\* relevance judgment and no generation in the run.
C1_GatedInOrder ==
    /\ (pc \in {"moderation_passed", "retriever", "process_documents", "check_relevance"}
            => modResult = "true")
    /\ (CallsOf("vector_search") # {} \/ "retriever" \in Nodes(trace)) => modResult = "true"
    /\ \A i \in CallsOf("vector_search") : \E j \in CallsOf("moderation") : j < i
    /\ (pc = "check_relevance" \/ relResult # "none" \/ CallsOf("judge") # {})
            => /\ "retriever" \in Nodes(trace)
               /\ CallsOf("vector_search") # {} \/ env.retr = "tool_raise"
    /\ (pc \in {"relevance_passed", "generate_answer"} \/ CallsOf("generation") # {}
            \/ "generate_answer" \in Nodes(trace))
            => relResult = "true"
    /\ modResult = "false"
            => /\ CallsOf("vector_search") = {}
               /\ CallsOf("judge") = {}
               /\ CallsOf("generation") = {}
               /\ relResult = "none"
               /\ Nodes(trace) \subseteq {"moderation_failed"}

C1_Witness ==
    /\ pc = "done"
    /\ modResult = "true"
    /\ trace = <<"moderation_passed", "retriever", "process_documents", "relevance_failed">>
    /\ Retrieved # {}

\* C2: a run that reaches END came through exactly one terminal node, its
\* last; the final state has is_last_step = true and a non-empty answer, which
\* is the moderation message after moderation_failed, the no-relevant-
\* information message after relevance_failed and the generator's answer
\* after generate_answer.
C2_TerminalState ==
    pc = END =>
        /\ LastNode \in TerminalNodes
        /\ Cardinality({ i \in 1..Len(trace) : trace[i] \in TerminalNodes }) = 1
        /\ Has(st, "is_last_step") /\ st.is_last_step
        /\ Has(st, "answer") /\ st.answer # ""
        /\ LastNode = "moderation_failed" => st.answer = MODERATION_MESSAGE
        /\ LastNode = "relevance_failed" => st.answer = RELEVANCE_FAILED_MESSAGE
        /\ LastNode = "generate_answer"
              => st.answer \in {GeneratedText(env), NO_DOCUMENTS_MESSAGE}

C2_Witness ==
    /\ pc = END
    /\ LastNode = "relevance_failed"
    /\ st.answer = RELEVANCE_FAILED_MESSAGE
    /\ st.is_last_step

\* C3: invoke_agent and ask_question never raise. An exception that leaves a
\* stage (graph compilation, the retriever node) is turned by invoke_agent
\* into a result whose answer is the error explanation and whose
\* error_message is the exception's message, and ask_question returns that
\* answer with an empty source list.
C3_NeverRaises ==
    /\ ~result.raised
    /\ ~ret.raised
    /\ (pc \in {"returned", "done"} /\ exc # "")
          => /\ Has(result.value, "answer")
             /\ result.value.answer = AGENT_ERROR_PREFIX \o exc
             /\ Has(result.value, "error_message")
             /\ result.value.error_message = exc
    /\ (pc = "done" /\ exc # "")
          => /\ ret.answer = AGENT_ERROR_PREFIX \o exc
             /\ ret.sources = <<>>
    /\ pc = "done" => ret.answer # ""

C3_Witness ==
    /\ pc = "done"
    /\ exc = "vector store unavailable"
    /\ LastNode = "retriever"
    /\ ret.answer = AGENT_ERROR_PREFIX \o "vector store unavailable"
    /\ ret.sources = <<>>

\* C4: with moderation safe, n >= 1 records retrieved and a judge that
\* answers true, the result carries the generated answer and the source of
\* each retrieved record; one retrieved record gives one source.
C4_AnswerWithSources ==
    (/\ pc = "done"
     /\ exc = ""
     /\ env.mod = "safe"
     /\ env.judge = "true"
     /\ env.gen = "ok"
     /\ Retrieved # {})
        => /\ ret.answer = GeneratedText(env)
           /\ Has(result.value, "sources")
           /\ \A i \in Retrieved : Len(result.value.sources) = calls[i].n
           /\ \A i \in Retrieved : calls[i].n = 1 => Len(ret.sources) = 1

\* C5: the k given to ask_question (5 when omitted) is the number of records
\* requested from the vector retriever.
C5_RequestedK ==
    \A i \in CallsOf("vector_search") : calls[i].k = kArg

\* C6: with no documents in the state at the relevance step, check_relevance
\* returns false without a judge call, and the run ends with the
\* no-relevant-information answer and without a generation call.
C6_EmptyDocumentsNotRelevant ==
    /\ (pc = "check_relevance" /\ GetDocuments(st) = <<>>)
          => LET r == check_relevance(st, env)
             IN ~r.ret /\ \A i \in 1..Len(r.calls) : r.calls[i].cap # "judge"
    /\ (relResult # "none" /\ GetDocuments(st) = <<>>)
          => /\ relResult = "false"
             /\ CallsOf("judge") = {}
             /\ CallsOf("generation") = {}
             /\ pc \in {"relevance_failed", END, "returned"}
             /\ pc \in {END, "returned"}
                   => /\ LastNode = "relevance_failed"
                      /\ st.answer = RELEVANCE_FAILED_MESSAGE

C6_Witness ==
    /\ pc = "returned"
    /\ relResult = "false"
    /\ GetDocuments(st) = <<>>
    /\ result.value.answer = RELEVANCE_FAILED_MESSAGE
    /\ CallsOf("judge") = {}

C8_ModerationFailsOpen ==
    /\ (pc = "START" /\ env.mod = "raise")
          => moderate(st, env).ret = moderate(st, [env EXCEPT !.mod = "safe"]).ret
    /\ (env.mod = "raise" /\ modResult # "none")
          => /\ modResult = "true"
             /\ pc # "moderation_failed"
             /\ Len(trace) >= 1 => trace[1] = "moderation_passed"
             /\ Len(trace) >= 2 => trace[2] = "retriever"

C8_Witness ==
    /\ env.mod = "raise"
    /\ modResult = "true"
    /\ Len(trace) >= 2
    /\ trace[2] = "retriever"
    /\ Retrieved # {}

\* C9: generate_answer never raises. For every state it returns a string
\* answer with is_last_step = true; when language detection or the model
\* call fails the answer is the templated error explanation.
C9_GenerateNeverRaises ==
    /\ pc = "generate_answer" => ~generate_answer(st, env).raised
    /\ LastNode = "generate_answer"
          => /\ pc \in {END, "returned"}
             /\ exc = ""
             /\ Has(st, "answer")
             /\ Has(st, "is_last_step") /\ st.is_last_step
             /\ GetInput(st) \in UndetectableQueries
                   => st.answer = GENERATION_ERROR_PREFIX \o "No features in text."
             /\ (GetInput(st) \notin UndetectableQueries
                    /\ GetDocuments(st) # <<>> /\ env.gen = "raise")
                   => st.answer = GENERATION_ERROR_PREFIX \o "generation model unavailable"

C9_Witness ==
    /\ LastNode = "generate_answer"
    /\ pc = "returned"
    /\ env.gen = "raise"
    /\ result.value.answer = GENERATION_ERROR_PREFIX \o "generation model unavailable"
    /\ result.value.is_last_step

\* C10: whenever documents is empty, generate_answer returns the fixed
\* no-documents message and makes no generation call, for every query,
\* the empty one and those whose language cannot be detected included.
C10_NoDocumentsMessage ==
    (LastNode = "generate_answer" /\ GetDocuments(st) = <<>>)
        => /\ st.answer = NO_DOCUMENTS_MESSAGE
           /\ CallsOf("generation") = {}

\* C11: the sources ask_question returns hold no element twice and, as a
\* set, are the sources of the agent's result; a result without a sources
\* key, or with an empty list, gives [].
C11_SourcesDeduplicated ==
    (pc = "done" /\ ~ret.raised) =>
        /\ Cardinality(SetOf(ret.sources)) = Len(ret.sources)
        /\ SetOf(ret.sources) =
              (IF Has(result.value, "sources") THEN SetOf(result.value.sources) ELSE {})
        /\ (~Has(result.value, "sources") \/ result.value.sources = <<>>)
              => ret.sources = <<>>

C11_Witness ==
    /\ pc = "done"
    /\ ~ret.raised
    /\ Has(result.value, "sources")
    /\ result.value.sources = <<"a.txt", "document2.txt", "a.txt">>
    /\ SetOf(ret.sources) = {"a.txt", "document2.txt"}
    /\ Len(ret.sources) = 2

\* C12: when the agent's result lists its sources without a duplicate,
\* ask_question returns the same sequence, in the same order.
C12_OrderPreserved ==
    (/\ pc = "done"
     /\ ~ret.raised
     /\ Has(result.value, "sources")
     /\ Cardinality(SetOf(result.value.sources)) = Len(result.value.sources))
        => ret.sources = result.value.sources

----------------------------------------------------------------------------
\* Properties of create_document and of the chunker

Max(a, b) == IF a >= b THEN a ELSE b
ChunkerErrors == {"ValueError", "RuntimeError", "Exception"}
\* the batch loop of create_document has run to its end
LoopFinished == wr.pc = "done" /\ wr.opened /\ wr.pgvector = "ok"
TotalChunks == Len(wr.documents)
AddIndexes == 1..Len(wr.adds)
TopCalls == { a \in AddIndexes : ~wr.adds[a].sub }
SubCalls == { a \in AddIndexes : wr.adds[a].sub }
SizeOf(a) == (wr.adds[a].to - wr.adds[a].from) + 1
\* the sub-batch calls made for the top-level call a: those after it and
\* before the next top-level call
RetriesOf(a) ==
    { b \in SubCalls : a < b /\ \A c \in TopCalls : c > a => b < c }
NumberOfBatches == (TotalChunks + BATCH_SIZE - 1) \div BATCH_SIZE

\* C13: batch-write completeness. For a document of N >= 1 chunks whose
\* add calls all succeed, the calls are the consecutive batches of at most
\* BATCH_SIZE chunks, every chunk is submitted once, in document order,
\* processed_chunks ends as N and nothing is raised.
C13_BatchWriteComplete ==
    (LoopFinished /\ TotalChunks >= 1 /\ \A a \in AddIndexes : wr.adds[a].ok) =>
        /\ Len(wr.adds) = NumberOfBatches
        /\ \A a \in AddIndexes :
              /\ ~wr.adds[a].sub
              /\ wr.adds[a].from = (a - 1) * BATCH_SIZE + 1
              /\ wr.adds[a].to = Min(a * BATCH_SIZE, TotalChunks)
              /\ SizeOf(a) \in 1..BATCH_SIZE
        /\ \A n \in 1..TotalChunks :
              Cardinality({ a \in AddIndexes : wr.adds[a].from <= n /\ n <= wr.adds[a].to }) = 1
        /\ wr.processed_chunks = TotalChunks
        /\ wr.raised = ""
        /\ ~wr.warned

C13_Witness ==
    /\ LoopFinished
    /\ TotalChunks = BATCH_SIZE + 1
    /\ Len(wr.adds) = 2
    /\ \A a \in AddIndexes : wr.adds[a].ok
    /\ wr.processed_chunks = TotalChunks
    /\ wr.raised = ""

C15_EveryBatchAttempted ==
    LoopFinished =>
        /\ \A m \in 1..NumberOfBatches :
              \E a \in TopCalls :
                  /\ wr.adds[a].from = (m - 1) * BATCH_SIZE + 1
                  /\ wr.adds[a].to = Min(m * BATCH_SIZE, TotalChunks)
        /\ \A a \in TopCalls :
              RetriesOf(a) # {} =>
                  \A n \in wr.adds[a].from .. wr.adds[a].to :
                      \E b \in RetriesOf(a) : wr.adds[b].from <= n /\ n <= wr.adds[b].to

C15_Witness ==
    /\ LoopFinished
    /\ TotalChunks = BATCH_SIZE + SUB_BATCH_SIZE + 1
    /\ Cardinality(TopCalls) = 2
    /\ \A a \in TopCalls : ~wr.adds[a].ok
    /\ Cardinality(SubCalls) = 7
    /\ ~wr.adds[2].ok
    /\ wr.adds[Len(wr.adds)].ok

\* C16 as stated: with the configured batch size above the sub-batch size,
\* every chunk of every failed top-level batch, the last and shorter one
\* included, gets a second write attempt in a sub-batch.
C16_EveryFailedBatchRetried ==
    (LoopFinished /\ BATCH_SIZE > SUB_BATCH_SIZE) =>
        \A a \in TopCalls :
            ~wr.adds[a].ok =>
                \A n \in wr.adds[a].from .. wr.adds[a].to :
                    \E b \in RetriesOf(a) : wr.adds[b].from <= n /\ n <= wr.adds[b].to

\* C16, amended: a failed top-level batch that holds more than
\* SUB_BATCH_SIZE chunks is retried in consecutive sub-batches of at most
\* SUB_BATCH_SIZE chunks, each of its chunks in exactly one of them; a
\* failed batch of at most SUB_BATCH_SIZE chunks (the last batch of a
\* document can be one) is skipped and gets no second attempt.
C16_FailedBatchRetriedBySize ==
    LoopFinished =>
        \A a \in TopCalls :
            /\ (~wr.adds[a].ok /\ SizeOf(a) > SUB_BATCH_SIZE) =>
                  /\ \A n \in wr.adds[a].from .. wr.adds[a].to :
                        Cardinality({ b \in RetriesOf(a) :
                                        wr.adds[b].from <= n /\ n <= wr.adds[b].to }) = 1
                  /\ \A b \in RetriesOf(a) : SizeOf(b) \in 1..SUB_BATCH_SIZE
            /\ (wr.adds[a].ok \/ SizeOf(a) <= SUB_BATCH_SIZE) => RetriesOf(a) = {}

C16_Witness ==
    /\ LoopFinished
    /\ TotalChunks = BATCH_SIZE + 5
    /\ Cardinality(TopCalls) = 2
    /\ \A a \in TopCalls : ~wr.adds[a].ok
    /\ Cardinality(RetriesOf(1)) = 5
    /\ \A b \in RetriesOf(1) : wr.adds[b].ok
    /\ Len(wr.adds) = 7
    /\ wr.processed_chunks = BATCH_SIZE

\* C17: when the chunker yields zero chunks, create_document completes
\* without raising and makes no add call.
C17_NoChunksHandledGracefully ==
    (wr.pc = "done" /\ wr.raised \notin ChunkerErrors /\ TotalChunks = 0 /\ wr.pgvector = "ok")
        => wr.raised = "" /\ wr.adds = <<>>

\* the inputs for which chunking fails
ChunkingFails(w) ==
    \/ w.chunker = "raises"
    \/ /\ w.chunker = "DocumentChunker"
       /\ \/ w.page_content.kind \in {"empty", "whitespace"}
          \/ ~w.metadata.isdict
          \/ w.splitter = "raise"

\* C18: when chunking fails (empty or whitespace-only text, metadata that
\* is not a dict, an error of the splitter) index_document raises and
\* returns no chunks, and create_document lets that error through to its
\* caller: the vector store is not opened and no add call is made.
C18_ChunkingErrorPropagates ==
    /\ \A t \in PageContents, m \in Metadatas, sg \in {"general", "semantic"}, sp \in {"ok", "raise"} :
          (t.kind \in {"empty", "whitespace"} \/ ~m.isdict \/ sp = "raise")
              => /\ index_document(t, m, sg, sp).raised \in {"ValueError", "RuntimeError"}
                 /\ index_document(t, m, sg, sp).chunks = <<>>
    /\ (wr.pc \notin {"idle", "index_document"} /\ ChunkingFails(wr)) =>
          /\ wr.pc = "done"
          /\ wr.raised \in ChunkerErrors
          /\ wr.raised =
                chunker_index_document(wr.chunker, wr.page_content, wr.metadata,
                                       wr.strategy, wr.splitter).raised
          /\ wr.detail =
                chunker_index_document(wr.chunker, wr.page_content, wr.metadata,
                                       wr.strategy, wr.splitter).msg
          /\ wr.status_code = 0
          /\ ~wr.opened
          /\ wr.adds = <<>>
          /\ wr.documents = <<>>

C18_Witness ==
    /\ wr.pc = "done"
    /\ wr.chunker = "DocumentChunker"
    /\ wr.page_content.kind = "whitespace"
    /\ wr.metadata.isdict
    /\ wr.pgvector = "ok"
    /\ wr.raised = "ValueError"
    /\ ~wr.opened

\* index_document returned the chunks of the General strategy
GeneralChunks ==
    /\ wr.pc \notin {"idle", "index_document"}
    /\ wr.chunker = "DocumentChunker"
    /\ wr.strategy = "general"
    /\ wr.raised \notin ChunkerErrors

\* C19: chunk order. The k-th chunk of the General strategy, counting from
\* 0, has chunk_index k, so the indices are 0..n-1 without gaps, and it is
\* built around base segment k: its text is that segment between its
\* neighbours.
C19_ChunkOrder ==
    GeneralChunks =>
        LET base_chunks == split_text(wr.page_content)
        IN  /\ Len(wr.documents) = Len(base_chunks)
            /\ \A n \in 1..Len(wr.documents) :
                  /\ wr.documents[n].metadata.chunk_index = n - 1
                  /\ wr.documents[n].page_content =
                        Join(SubSeq(base_chunks, Max(1, n - DEFAULT_CONTEXT_WINDOW),
                                    Min(Len(base_chunks), n + DEFAULT_CONTEXT_WINDOW)))

C19_Witness ==
    /\ GeneralChunks
    /\ Len(wr.documents) = MaxChunks
    /\ wr.documents[MaxChunks].metadata.chunk_index = MaxChunks - 1
    /\ wr.documents[2].page_content = "segment 1\nsegment 2\nsegment 3"

\* C20 as stated: for every metadata map, whatever its keys, each General
\* chunk's metadata holds every input key with its input value and exactly
\* one more key, chunk_index; the caller's map is not modified.
C20_MetadataExtended ==
    /\ GeneralChunks =>
          \A n \in 1..Len(wr.documents) :
              /\ \A key \in DOMAIN wr.metadata.map :
                    /\ key \in DOMAIN wr.documents[n].metadata
                    /\ wr.documents[n].metadata[key] = wr.metadata.map[key]
              /\ "chunk_index" \in DOMAIN wr.documents[n].metadata
              /\ Cardinality(DOMAIN wr.documents[n].metadata)
                    = Cardinality(DOMAIN wr.metadata.map) + 1
    /\ wr.pc = "index_document" => call_index_document(wr).metadata = wr.metadata

\* C20, amended: each General chunk's metadata holds every input key other
\* than chunk_index with its input value, and chunk_index with the chunk's
\* position; that is one added key when the input map has no chunk_index
\* key, and a replaced value and no added key when it has one. The
\* caller's map is not modified.
C20_MetadataExtendedOrReplaced ==
    /\ GeneralChunks =>
          \A n \in 1..Len(wr.documents) :
              /\ DOMAIN wr.documents[n].metadata = DOMAIN wr.metadata.map \cup {"chunk_index"}
              /\ \A key \in DOMAIN wr.metadata.map \ {"chunk_index"} :
                    wr.documents[n].metadata[key] = wr.metadata.map[key]
              /\ wr.documents[n].metadata.chunk_index = n - 1
              /\ "chunk_index" \notin DOMAIN wr.metadata.map
                    => Cardinality(DOMAIN wr.documents[n].metadata)
                          = Cardinality(DOMAIN wr.metadata.map) + 1
              /\ "chunk_index" \in DOMAIN wr.metadata.map
                    => Cardinality(DOMAIN wr.documents[n].metadata)
                          = Cardinality(DOMAIN wr.metadata.map)
    /\ wr.pc = "index_document" => call_index_document(wr).metadata = wr.metadata

C20_Witness ==
    /\ GeneralChunks
    /\ wr.metadata = Dict([title |-> "test.txt", chunk_index |-> 0])
    /\ Len(wr.documents) >= 2
    /\ wr.documents[2].metadata = [title |-> "test.txt", chunk_index |-> 1]

RECURSIVE ChunksOfSuccessfulCalls(_)
\* the number of chunks in the first n add calls that returned
ChunksOfSuccessfulCalls(n) ==
    IF n = 0 THEN 0
    ELSE ChunksOfSuccessfulCalls(n - 1) + (IF wr.adds[n].ok THEN SizeOf(n) ELSE 0)

\* C27: throughout create_document 0 <= processed_chunks <= total_chunks,
\* and processed_chunks is the number of chunks in the add calls that
\* returned; no chunk is in two such calls and no chunk of a failed call is
\* counted.
C27_ProcessedCountsSuccessfulChunks ==
    /\ 0 <= wr.processed_chunks
    /\ wr.processed_chunks <= wr.total_chunks
    /\ wr.processed_chunks = ChunksOfSuccessfulCalls(Len(wr.adds))
    /\ \A a, b \in AddIndexes :
          (a # b /\ wr.adds[a].ok /\ wr.adds[b].ok)
              => (wr.adds[a].to < wr.adds[b].from \/ wr.adds[b].to < wr.adds[a].from)
    /\ \A a \in AddIndexes : 1 <= wr.adds[a].from /\ wr.adds[a].to <= wr.total_chunks

C27_Witness ==
    /\ LoopFinished
    /\ TotalChunks = BATCH_SIZE + SUB_BATCH_SIZE + 1
    /\ ~wr.adds[1].ok
    /\ wr.adds[2].ok /\ wr.adds[3].ok
    /\ \A a \in 4..6 : ~wr.adds[a].ok
    /\ wr.adds[7].ok
    /\ wr.processed_chunks = 3 * SUB_BATCH_SIZE + 1

\* C21: a chunking configuration whose overlap is not smaller than its chunk
\* size is never loaded, and no split is started under such a configuration.
C21_InvalidOverlapRejectedAtLoad ==
    /\ wr.settings.loaded => wr.settings.OVERLAP_SIZE < wr.settings.CHUNK_SIZE
    /\ wr.split_started => wr.settings.OVERLAP_SIZE < wr.settings.CHUNK_SIZE

\* C25: for every context window w and every base segment i, chunk i is the
\* base segments max(0, i-w) .. min(n-1, i+w) joined by a line break in
\* document order.
C25_ContextInDocumentOrder ==
    wr.pc = "chunked" /\ wr.raised = "" =>
        LET base_chunks == split_text(wr.page_content)
        IN  /\ Len(wr.documents) = Len(base_chunks)
            /\ \A n \in 1..Len(base_chunks) :
                  wr.documents[n].page_content =
                      Join(SubSeq(base_chunks, Max(1, n - wr.context_window),
                                  Min(Len(base_chunks), n + wr.context_window)))

\* C26: within one create_document call at most one add call is in flight.
\* A batch is started only when every call for earlier chunks, sub-batch
\* retries included, has finished, and the sub-batches of a failed batch
\* run one after another in document order.
C26_OneAddCallInFlight ==
    /\ Len(wr.inflight) <= 1
    /\ \A c \in 1..Len(wr.inflight) :
          /\ ~wr.inflight[c].sub =>
                /\ \A a \in AddIndexes : wr.adds[a].to < wr.inflight[c].from
                /\ \A n \in 1..(wr.inflight[c].from - 1) :
                      \E a \in TopCalls : wr.adds[a].from <= n /\ n <= wr.adds[a].to
          /\ wr.inflight[c].sub =>
                /\ \E a \in TopCalls :
                      /\ ~wr.adds[a].ok
                      /\ wr.adds[a].from <= wr.inflight[c].from
                      /\ wr.inflight[c].to <= wr.adds[a].to
                      /\ \A n \in wr.adds[a].from .. (wr.inflight[c].from - 1) :
                            \E b \in RetriesOf(a) : wr.adds[b].from <= n /\ n <= wr.adds[b].to
                /\ \A b \in SubCalls : wr.adds[b].to < wr.inflight[c].from
    /\ \A a, b \in AddIndexes :
          a < b =>
              \/ wr.adds[a].to < wr.adds[b].from
              \/ /\ ~wr.adds[a].sub /\ ~wr.adds[a].ok /\ wr.adds[b].sub
                 /\ b \in RetriesOf(a)

C26_Witness ==
    /\ wr.pc = "await_sub_batch"
    /\ wr.inflight = <<Awaited(BATCH_SIZE + SUB_BATCH_SIZE + 1, BATCH_SIZE + SUB_BATCH_SIZE + 1, TRUE)>>
    /\ Len(wr.adds) = 8
    /\ Cardinality(TopCalls) = 2

----------------------------------------------------------------------------
\* Properties of the graph and of a pipeline run

\* C28: in one pipeline run the vector retriever is queried at most once;
\* after the retriever node neither process_documents nor the relevance
\* step queries it again.
C28_RetrievedAtMostOnce ==
    Cardinality(CallsOf("vector_search")) <= 1

\* C29: in the graph a question is run on, every registered node is
\* reachable from START along the declared edges and has a path to END.
C29_NoDeadNode ==
    pc \in {"invoke_agent", "START"} \cup RegisteredNodes =>
        \A node \in RegisteredNodes :
            /\ node \in ReachableFrom("START")
            /\ END \in ReachableFrom(node)


----------------------------------------------------------------------------
\* Properties of upload and delete over the two stores

RowsTagged(document_id) ==
    { row \in BagToSet(db.vector) : row.metadata.document_id = document_id }

\* C22: the vector rows are deleted only after the primary record was
\* removed, and a delete whose primary record was removed and whose vector
\* deletion failed answers HTTP 500 with the partial-deletion detail,
\* never success and never not-found; no other response carries that detail.
C22_PartialDeleteSurfaced ==
    \A p \in Procs :
        LET r == db.proc[p]
        IN  /\ r.vector_attempted => r.primary_removed
            /\ r.pc = "vector_delete" =>
                  r.primary_removed /\ uuid_UUID(r.document_id) \notin db.primary
            /\ r.pc = "responded" /\ r.primary_removed /\ r.vector_failed =>
                  /\ r.status_code = HTTP_500
                  /\ r.detail = PARTIAL_DELETE_DETAIL
                  /\ ~r.success
            /\ r.pc = "responded" /\ r.detail = PARTIAL_DELETE_DETAIL =>
                  r.op = "delete" /\ r.primary_removed /\ r.vector_failed

C22_Witness ==
    \E p \in Procs :
        /\ db.proc[p].pc = "responded"
        /\ db.proc[p].op = "delete"
        /\ db.proc[p].primary_removed
        /\ db.proc[p].vector_failed
        /\ db.proc[p].status_code = HTTP_500
        /\ RowsTagged(uuid4(p)) # {}

\* C23: a successful delete sent after the document's upload finished leaves
\* neither the primary record nor any vector row tagged with the document's id.
C23_DeleteAfterUploadRemovesAll ==
    \A p \in Procs :
        LET r == db.proc[p]
        IN  r.op = "delete" /\ r.pc = "responded" /\ r.success /\ r.uploaded =>
                /\ uuid_UUID(r.document_id) \notin db.primary
                /\ RowsTagged(uuid_UUID(r.document_id)) = {}

\* C24: a step of a client's upload or delete leaves the number of copies of
\* every vector row tagged with another document's id as it was.
C24_DifferentDocumentsDoNotInterfere ==
    [][\A p \in Procs :
          db'.proc[p] # db.proc[p] =>
              \A row \in BagToSet(db.vector) \cup BagToSet(db'.vector) :
                  row.metadata.document_id # uuid4(p) =>
                      CopiesIn(row, db'.vector) = CopiesIn(row, db.vector)]_vars

C24_Witness ==
    \E p, q \in Procs :
        /\ p # q
        /\ db.proc[p].pc = "awaiting"
        /\ db.proc[p].w.processed_chunks > 0
        /\ RowsTagged(uuid4(p)) # {}
        /\ db.proc[q].op = "delete"
        /\ db.proc[q].pc = "responded"
        /\ db.proc[q].success
        /\ db.proc[q].uploaded
        /\ db.proc[q].document_id = uuid4(q)
        /\ db.proc[q].vector_deleted_count > 0
        /\ RowsTagged(uuid4(q)) = {}

\* C30: after an upload request has finished, its primary record exists
\* exactly when the request returned success; when create_document raised,
\* the request returned an error and no primary record of the upload remains.
C30_UploadAllOrNothing ==
    \A p \in Procs :
        LET r == db.proc[p]
        IN  r.op = "upload" /\ r.pc = "responded" =>
                /\ (uuid4(p) \in db.primary) <=> r.success
                /\ r.create_document_raised => ~r.success /\ uuid4(p) \notin db.primary

====
